---- MODULE Spec2Model ----
(***************************************************************************)
(* Model of anet_inventory.py, the Atlantic.Net dynamic inventory script.  *)
(*                                                                         *)
(* One run of the script is one execution of AtlanticNetInventory.__init__ *)
(* from the "Manage cache" section on (credentials already resolved).      *)
(* The durable state is the cache file and the wall clock; a run reads the *)
(* file, talks to the API client, may rewrite the file and prints JSON.    *)
(*                                                                         *)
(* Python strings that the code inspects character by character (to_safe,  *)
(* int(), key concatenation) are sequences of one-character strings.       *)
(* Dictionaries are functions; the empty dictionary is the empty function. *)
(***************************************************************************)
EXTENDS Integers, Sequences, FiniteSets, TLC

VARIABLES
    cache_file,       \* the file <cache_path>/ansible-atlantic_net.cache
    clock,            \* time(), in seconds
    cache_max_age,    \* self.cache_max_age (ini setting, default 0)
    group_variables,  \* self.group_variables (ini setting, default {})
    proc              \* the process that has just ended, if any

vars == <<cache_file, clock, cache_max_age, group_variables, proc>>

\* ----------------------------------------------------------------------
\* Bounds of the model

MaxClock == 2         \* the clock runs from 0 to MaxClock
MaxAge == 1           \* cache_max_age ranges over 0..MaxAge
MaxFleet == 1         \* cloudservers returned by one all_active_cloudservers()
MaxRevision == 1      \* distinct catalogues (images, plans, ssh keys) upstream
MaxServers == 2       \* length of the cloudserver lists given to build_inventory

\* ----------------------------------------------------------------------
\* Dictionaries

EmptyDict == [k \in {} |-> 0]

Put(d, k, v) == [x \in (DOMAIN d) \cup {k} |-> IF x = k THEN v ELSE d[x]]

\* Python string concatenation on character sequences
Concat(a, b) == a \o b

\* Sequencing of statements: value is computed once, then Rest sees it
Bind(value, Rest(_)) == CHOOSE out \in {Rest(v) : v \in {value}} : TRUE

\* ----------------------------------------------------------------------
\* Utilities

SafeChars ==
    { "A","B","C","D","E","F","G","H","I","J","K","L","M",
      "N","O","P","Q","R","S","T","U","V","W","X","Y","Z",
      "a","b","c","d","e","f","g","h","i","j","k","l","m",
      "n","o","p","q","r","s","t","u","v","w","x","y","z",
      "0","1","2","3","4","5","6","7","8","9","-","." }

\* re.sub("[^A-Za-z0-9\-\.]", "_", word)
to_safe(word) ==
    [i \in 1..Len(word) |-> IF word[i] \in SafeChars THEN word[i] ELSE "_"]

DigitChars == <<"0","1","2","3","4","5","6","7","8","9">>

\* str(n) for n >= 0, as json.dumps writes an integer dictionary key
RECURSIVE IntToStr(_)
IntToStr(n) ==
    IF n < 10 THEN <<DigitChars[n + 1]>>
    ELSE Concat(IntToStr(n \div 10), <<DigitChars[(n % 10) + 1]>>)

IsDigit(c) == \E d \in 1..10 : DigitChars[d] = c

DigitValue(c) == (CHOOSE d \in 1..10 : DigitChars[d] = c) - 1

RECURSIVE DigitsToInt(_)
DigitsToInt(w) ==
    IF Len(w) = 0 THEN 0
    ELSE 10 * DigitsToInt(SubSeq(w, 1, Len(w) - 1)) + DigitValue(w[Len(w)])

\* int(word): an optional sign followed by one or more digits, else ValueError
IntParses(word) ==
    LET body == IF Len(word) > 0 /\ word[1] \in {"-", "+"} THEN Tail(word) ELSE word
    IN  Len(body) > 0 /\ \A i \in 1..Len(body) : IsDigit(body[i])

IntOf(word) ==
    IF word[1] = "-" THEN 0 - DigitsToInt(Tail(word))
    ELSE IF word[1] = "+" THEN DigitsToInt(Tail(word))
    ELSE DigitsToInt(word)

\* ----------------------------------------------------------------------
\* Inventory keys and entries.  A Python dict key is an int (the id shortcut)
\* or a str; an entry is a bare list, a {hosts, vars} group or {hostvars}.

IntKey(n) == <<"int", n>>
StrKey(w) == <<"str", w>>

ListEntry(hosts) == [shape |-> "list", hosts |-> hosts]
GroupEntry(hosts, gvars) == [shape |-> "group", hosts |-> hosts, vars |-> gvars]
MetaEntry == [shape |-> "meta", hostvars |-> EmptyDict]

W_all == <<"a","l","l">>
W_meta == <<"_","m","e","t","a">>
W_image_ == <<"i","m","a","g","e","_">>
W_plan_ == <<"p","l","a","n","_">>
W_distro_ == <<"d","i","s","t","r","o","_">>
W_status_ == <<"s","t","a","t","u","s","_">>
W_anet_ == <<"a","n","e","t","_">>

AllKey == StrKey(W_all)
MetaKey == StrKey(W_meta)

\* ----------------------------------------------------------------------
\* The state of one process (the AtlanticNetInventory object being built)

Kinds == <<"cloudservers", "images", "plans", "ssh_keys">>

KindSet == {Kinds[i] : i \in 1..Len(Kinds)}

CatalogueKinds == {"images", "plans", "ssh_keys"}

\* self.data = {}, self.inventory = {}, self.cache_refreshed = False;
\* calls is the log of the requests made to the API client, outcome is
\* "running" until the process prints ("done"), calls sys.exit ("exit") or
\* dies of an uncaught exception ("raised"); validity is what is_cache_valid()
\* returned to this process, json_data the value handed to json.dumps
NewProcess ==
    [ data |-> EmptyDict, inventory |-> EmptyDict, cache_refreshed |-> FALSE,
      calls |-> <<>>, outcome |-> "running", error |-> "none",
      validity |-> "uncalled", json_data |-> EmptyDict ]

Raise(self, err) == [self EXCEPT !.outcome = "raised", !.error = err]

Running(self) == self.outcome = "running"

\* ----------------------------------------------------------------------
\* Inventory Builder

\* self.inventory[key]['hosts'].append(dest)
AppendHost(self, key, dest) ==
    IF ~Running(self) THEN self
    ELSE IF self.inventory[key].shape = "list" THEN Raise(self, "TypeError")
    ELSE IF self.inventory[key].shape = "meta" THEN Raise(self, "KeyError")
    ELSE [self EXCEPT !.inventory[key].hosts = Append(@, dest)]

\* self.inventory[key] = [dest]
SetShortcut(self, key, dest) ==
    IF ~Running(self) THEN self
    ELSE [self EXCEPT !.inventory = Put(@, key, ListEntry(<<dest>>))]

\* if group not in self.inventory: self.inventory[group] = {'hosts':[], 'vars': {}}
\* self.inventory[group]['hosts'].append(dest)
AddToGroup(self, group, dest) ==
    IF ~Running(self) THEN self
    ELSE Bind(IF StrKey(group) \notin DOMAIN self.inventory
              THEN [self EXCEPT !.inventory =
                       Put(@, StrKey(group), GroupEntry(<<>>, EmptyDict))]
              ELSE self,
              LAMBDA made : AppendHost(made, StrKey(group), dest))

\* "for group in [...]" over the group names in groups
RECURSIVE AddToGroups(_, _, _)
AddToGroups(self, groups, dest) ==
    IF Len(groups) = 0 THEN self
    ELSE Bind(AddToGroup(self, Head(groups), dest),
              LAMBDA added : AddToGroups(added, Tail(groups), dest))

\* groups that are always present
AlwaysGroups(cloudserver) ==
    << Concat(W_image_, to_safe(cloudserver.vm_image)),
       Concat(W_plan_, cloudserver.vm_plan_name),
       Concat(W_distro_, to_safe(cloudserver.vm_image_display_name)),
       Concat(W_status_, cloudserver.vm_status) >>

\* MaybeGroups without the raw image id, which the always-present groups
\* have already covered
MaybeGroups_OnlyDisplayName(cloudserver) ==
    LET raw == <<cloudserver.vm_image_display_name>>
        keep(w) == IF Len(w) > 0 THEN <<Concat(W_image_, to_safe(w))>> ELSE <<>>
    IN  keep(raw[1])

\* groups that are not always present: "if group:" keeps the non-empty ones
MaybeGroups(cloudserver) ==
    LET raw == <<cloudserver.vm_image, cloudserver.vm_image_display_name>>
        keep(w) == IF Len(w) > 0 THEN <<Concat(W_image_, to_safe(w))>> ELSE <<>>
    IN  keep(raw[1]) \o keep(raw[2])

\* the body of "for cloudserver in self.data['cloudservers']"
AddCloudserver(self, cloudserver) ==
    LET dest == cloudserver.vm_ip_address
    IN  Bind(AppendHost(self, AllKey, dest), LAMBDA s1 :
        Bind(SetShortcut(s1, IntKey(cloudserver.id), dest), LAMBDA s2 :
        Bind(SetShortcut(s2, StrKey(cloudserver.name), dest), LAMBDA s3 :
        Bind(AddToGroups(s3, AlwaysGroups(cloudserver), dest), LAMBDA s4 :
        AddToGroups(s4, MaybeGroups(cloudserver), dest)))))

RECURSIVE AddCloudservers(_, _)
AddCloudservers(self, cloudservers) ==
    IF Len(cloudservers) = 0 THEN self
    ELSE Bind(AddCloudserver(self, Head(cloudservers)),
              LAMBDA added : AddCloudservers(added, Tail(cloudservers)))

build_inventory(self, gvars) ==
    IF ~Running(self) THEN self
    ELSE Bind([self EXCEPT !.inventory =
                  [k \in {AllKey, MetaKey} |->
                      IF k = AllKey THEN GroupEntry(<<>>, gvars) ELSE MetaEntry]],
              LAMBDA fresh :
                  IF "cloudservers" \notin DOMAIN fresh.data
                  THEN Raise(fresh, "KeyError")
                  ELSE AddCloudservers(fresh, fresh.data["cloudservers"]))

\* ----------------------------------------------------------------------
\* Cache Management

\* the file as a JSON reader sees it: a {data, inventory} document
\* ("snapshot"), text that is not JSON ("notjson") or JSON without the two
\* keys ("foreign")
Document(format, data, inventory) ==
    [format |-> format, data |-> data, inventory |-> inventory]

NoFile ==
    [exists |-> FALSE, mtime |-> 0, content |-> Document("none", EmptyDict, EmptyDict)]

\* is_cache_valid with >= for >
is_cache_valid_Inclusive(file, current_time, max_age) ==
    IF file.exists
    THEN IF (file.mtime + max_age) >= current_time THEN TRUE ELSE FALSE
    ELSE FALSE

is_cache_valid(file, current_time, max_age) ==
    IF file.exists
    THEN IF (file.mtime + max_age) > current_time THEN TRUE ELSE FALSE
    ELSE FALSE

\* json.dumps turns every dictionary key into a string; when the int key n
\* and the str key str(n) are both present the text holds the key twice
\* (sort_keys puts the int first) and a reader keeps the last one
JsonKey(key) == IF key[1] = "int" THEN StrKey(IntToStr(key[2])) ELSE key

JsonObject(dict) ==
    [j \in {JsonKey(k) : k \in DOMAIN dict} |->
        IF j \in DOMAIN dict THEN dict[j]
        ELSE dict[CHOOSE k \in DOMAIN dict : JsonKey(k) = j]]

\* load_from_cache that starts every run from the empty snapshot
load_from_cache_StartsEmpty(self, file) ==
    IF ~Running(self) THEN self
    ELSE [self EXCEPT !.data = EmptyDict, !.inventory = EmptyDict]

load_from_cache(self, file) ==
    IF ~Running(self) THEN self
    ELSE IF ~file.exists
    THEN [self EXCEPT !.data = EmptyDict, !.inventory = EmptyDict]
    ELSE IF file.content.format = "notjson" THEN Raise(self, "ValueError")
    ELSE IF file.content.format = "foreign" THEN Raise(self, "KeyError")
    ELSE [self EXCEPT !.data = file.content.data,
                      !.inventory = file.content.inventory]

\* write_to_cache that dumps the data and leaves the inventory empty
write_to_cache_DataOnly(self, file, write_time, disk) ==
    IF ~Running(self) THEN [self |-> self, file |-> file, opened |-> FALSE]
    ELSE IF disk = "open_fails"
    THEN [self |-> Raise(self, "IOError"), file |-> file, opened |-> FALSE]
    ELSE [self |-> self, opened |-> TRUE,
          file |-> [exists |-> TRUE, mtime |-> write_time,
                    content |-> Document("snapshot", self.data, EmptyDict)]]

\* disk is what the file system does with the write: "ok", or "open_fails"
\* (open raises IOError and the file is as before)
write_to_cache(self, file, write_time, disk) ==
    IF ~Running(self) THEN [self |-> self, file |-> file, opened |-> FALSE]
    ELSE IF disk = "open_fails"
    THEN [self |-> Raise(self, "IOError"), file |-> file, opened |-> FALSE]
    ELSE [self |-> self, opened |-> TRUE,
          file |-> [exists |-> TRUE, mtime |-> write_time,
                    content |-> Document("snapshot", self.data,
                                         JsonObject(self.inventory))]]

\* ----------------------------------------------------------------------
\* Data Management

\* an entry of the log of requests: the method, its arguments, and what the
\* client did
Call(op, arguments, answer) ==
    [op |-> op, arguments |-> arguments, raised |-> answer.raised,
     value |-> IF answer.raised THEN <<>> ELSE answer.value]

FetchOp(kind) ==
    CASE kind = "cloudservers" -> "all_active_cloudservers"
      [] kind = "images" -> "all_images"
      [] kind = "plans" -> "plans"
      [] kind = "ssh_keys" -> "all_ssh_keys"

\* Fetch inside a try/except that swallows the client's exception
Fetch_SwallowsError(self, resource, kind, api) ==
    IF ~Running(self) THEN self
    ELSE IF resource = kind \/ resource = "None"
    THEN Bind([self EXCEPT !.calls = Append(@, Call(FetchOp(kind), <<>>, api[kind]))],
              LAMBDA called :
                  IF api[kind].raised THEN called
                  ELSE [called EXCEPT !.data = Put(@, kind, api[kind].value),
                                      !.cache_refreshed = TRUE])
    ELSE self

\* Fetch, forgetting "self.cache_refreshed = True"
Fetch_NotDirty(self, resource, kind, api) ==
    IF ~Running(self) THEN self
    ELSE IF resource = kind \/ resource = "None"
    THEN Bind([self EXCEPT !.calls = Append(@, Call(FetchOp(kind), <<>>, api[kind]))],
              LAMBDA called :
                  IF api[kind].raised THEN Raise(called, "APIError")
                  ELSE [called EXCEPT !.data = Put(@, kind, api[kind].value)])
    ELSE self

\* one "if resource == kind or resource is None:" block; api[kind] is what
\* the API client does with the request: it returns a value or raises
Fetch(self, resource, kind, api) ==
    IF ~Running(self) THEN self
    ELSE IF resource = kind \/ resource = "None"
    THEN Bind([self EXCEPT !.calls = Append(@, Call(FetchOp(kind), <<>>, api[kind]))],
              LAMBDA called :
                  IF api[kind].raised THEN Raise(called, "APIError")
                  ELSE [called EXCEPT !.data = Put(@, kind, api[kind].value),
                                      !.cache_refreshed = TRUE])
    ELSE self

\* load_from_atlantic_net without the return on a valid cache
load_from_atlantic_net_NoShortCircuit(self, args, resource, file, current_time, max_age, api) ==
    IF ~Running(self) THEN self
    ELSE IF args.force_cache THEN self
    ELSE Bind(is_cache_valid(file, current_time, max_age), LAMBDA valid :
         Bind([self EXCEPT !.validity = IF valid THEN "valid" ELSE "stale"],
              LAMBDA s0 :
         Bind(IF args.refresh_cache THEN "None" ELSE resource, LAMBDA widened :
         Bind(Fetch(s0, widened, "cloudservers", api), LAMBDA s1 :
         Bind(Fetch(s1, widened, "images", api), LAMBDA s2 :
         Bind(Fetch(s2, widened, "plans", api), LAMBDA s3 :
         Fetch(s3, widened, "ssh_keys", api)))))))

\* load_from_atlantic_net without the return under --force-cache
load_from_atlantic_net_IgnoresForce(self, args, resource, file, current_time, max_age, api) ==
    IF ~Running(self) THEN self
    ELSE Bind(is_cache_valid(file, current_time, max_age), LAMBDA valid :
         Bind([self EXCEPT !.validity = IF valid THEN "valid" ELSE "stale"],
              LAMBDA s0 :
         IF valid /\ ~(resource = "cloudservers" \/ resource = "None")
         THEN s0
         ELSE Bind(IF args.refresh_cache THEN "None" ELSE resource,
                   LAMBDA widened :
              Bind(Fetch(s0, widened, "cloudservers", api), LAMBDA s1 :
              Bind(Fetch(s1, widened, "images", api), LAMBDA s2 :
              Bind(Fetch(s2, widened, "plans", api), LAMBDA s3 :
              Fetch(s3, widened, "ssh_keys", api)))))))

load_from_atlantic_net(self, args, resource, file, current_time, max_age, api) ==
    IF ~Running(self) THEN self
    ELSE IF args.force_cache THEN self
    ELSE Bind(is_cache_valid(file, current_time, max_age), LAMBDA valid :
         Bind([self EXCEPT !.validity = IF valid THEN "valid" ELSE "stale"],
              LAMBDA s0 :
         IF valid /\ ~(resource = "cloudservers" \/ resource = "None")
         THEN s0
         ELSE Bind(IF args.refresh_cache THEN "None" ELSE resource,
                   LAMBDA widened :
              Bind(Fetch(s0, widened, "cloudservers", api), LAMBDA s1 :
              Bind(Fetch(s1, widened, "images", api), LAMBDA s2 :
              Bind(Fetch(s2, widened, "plans", api), LAMBDA s3 :
              Fetch(s3, widened, "ssh_keys", api)))))))

\* json_data = {kind: self.data[kind]}
PickKind(self, kind) ==
    IF ~Running(self) THEN self
    ELSE IF kind \notin DOMAIN self.data THEN Raise(self, "KeyError")
    ELSE [self EXCEPT !.json_data = [k \in {kind} |-> self.data[kind]]]

load_cloudserver_variables_for_host(self, args, api) ==
    IF ~Running(self) THEN self
    ELSE IF ~IntParses(args.host) THEN Raise(self, "ValueError")
    ELSE Bind(IntOf(args.host), LAMBDA host :
         Bind([self EXCEPT !.calls =
                  Append(@, Call("show_cloudserver", <<host>>, api.show))],
              LAMBDA called :
         IF api.show.raised THEN Raise(called, "APIError")
         ELSE Bind(api.show.value, LAMBDA cloudserver :
              Bind([p \in {Concat(W_anet_, k) : k \in DOMAIN cloudserver} |->
                       cloudserver[CHOOSE k \in DOMAIN cloudserver :
                                       Concat(W_anet_, k) = p]],
                   LAMBDA info :
              [called EXCEPT !.json_data = [k \in {"cloudserver"} |-> info]]))))

\* ----------------------------------------------------------------------
\* Main execution path, from "Manage cache" to the final print

\* "if self.is_cache_valid:" tests the bound method, which is always true,
\* so the cache is loaded whatever its age
\* ManageCache without the exit on an empty cache under --force-cache
ManageCache_NoExit(self, args, file) == load_from_cache(self, file)

ManageCache(self, args, file) ==
    Bind(load_from_cache(self, file), LAMBDA loaded :
        IF Running(loaded) /\ Cardinality(DOMAIN loaded.data) = 0
                           /\ args.force_cache
        THEN [loaded EXCEPT !.outcome = "exit", !.error = "cache_empty"]
        ELSE loaded)

\* the if/elif chain on the CLI command; args.view is the branch taken
PickView(self, args, file, current_time, max_age, gvars, api) ==
    LET load(resource) ==
            load_from_atlantic_net(self, args, resource, file,
                                   current_time, max_age, api)
    IN  CASE args.view \in KindSet ->
                Bind(load(args.view), LAMBDA s : PickKind(s, args.view))
          [] args.view = "all" ->
                Bind(load("None"), LAMBDA s :
                    IF Running(s) THEN [s EXCEPT !.json_data = s.data] ELSE s)
          [] args.view = "host" ->
                load_cloudserver_variables_for_host(self, args, api)
          [] args.view = "list" ->
                Bind(load("cloudservers"), LAMBDA s :
                Bind(build_inventory(s, gvars), LAMBDA b :
                    IF Running(b) THEN [b EXCEPT !.json_data = b.inventory] ELSE b))

Main(args, file, current_time, write_time, max_age, gvars, api, disk) ==
    Bind(ManageCache(NewProcess, args, file), LAMBDA managed :
    Bind(IF Running(managed)
         THEN PickView(managed, args, file, current_time, max_age, gvars, api)
         ELSE managed, LAMBDA picked :
    Bind(IF Running(picked) /\ picked.cache_refreshed
         THEN write_to_cache(picked, file, write_time, disk)
         ELSE [self |-> picked, file |-> file, opened |-> FALSE], LAMBDA saved :
    [self |-> IF Running(saved.self)
              THEN [saved.self EXCEPT !.outcome = "done"]
              ELSE saved.self,
     file |-> saved.file, opened |-> saved.opened])))

\* ----------------------------------------------------------------------
\* The inputs of the model: what the provider, the user and the file
\* system may hand to a run

Web1 ==
    [ id |-> 1, name |-> <<"w","e","b","1">>,
      vm_ip_address |-> "10.0.0.1",
      vm_image |-> <<"i","m","g","-","1">>,
      vm_image_display_name |-> <<"U","b","u","n","t","u"," ","2","0",".","0","4">>,
      vm_plan_name |-> <<"s","m","a","l","l">>,
      vm_status |-> <<"a","c","t","i","v","e">> ]

SrvAll ==
    [ id |-> 2, name |-> <<"a","l","l">>,
      vm_ip_address |-> "10.0.0.2",
      vm_image |-> <<>>,
      vm_image_display_name |-> <<>>,
      vm_plan_name |-> <<"s","m","a","l","l">>,
      vm_status |-> <<"o","f","f">> ]

SrvOne ==
    [ id |-> 1, name |-> <<"1">>,
      vm_ip_address |-> "10.0.0.3",
      vm_image |-> <<"i","m","g","-","1">>,
      vm_image_display_name |-> <<"i","m","g","-","1">>,
      vm_plan_name |-> <<"b","i","g">>,
      vm_status |-> <<"a","c","t","i","v","e">> ]

SrvMeta ==
    [ id |-> 4, name |-> <<"_","m","e","t","a">>,
      vm_ip_address |-> "10.0.0.4",
      vm_image |-> <<"i","m","g"," ","2">>,
      vm_image_display_name |-> <<>>,
      vm_plan_name |-> <<"b","i","g">>,
      vm_status |-> <<"o","f","f">> ]

SrvPlan ==
    [ id |-> 5, name |-> <<"p","l","a","n","_","s","m","a","l","l">>,
      vm_ip_address |-> "10.0.0.5",
      vm_image |-> <<"i","m","g","-","1">>,
      vm_image_display_name |-> <<"D","e","b","i","a","n">>,
      vm_plan_name |-> <<"s","m","a","l","l">>,
      vm_status |-> <<"a","c","t","i","v","e">> ]

\* all sequences over S of length at most n
RECURSIVE SeqsUpTo(_, _)
SeqsUpTo(S, n) ==
    IF n = 0 THEN {<<>>}
    ELSE LET shorter == SeqsUpTo(S, n - 1)
         IN  shorter \cup {Append(q, x) : q \in {r \in shorter : Len(r) = n - 1}, x \in S}

NoRepeats(q) == \A i, j \in 1..Len(q) : q[i] = q[j] => i = j

\* what all_active_cloudservers() may return during a run of the script:
\* the account holds up to two cloudservers, each listed once
Fleets == {q \in SeqsUpTo({Web1, SrvAll}, MaxFleet) : NoRepeats(q)}

\* what build_inventory is applied to when it is examined on its own
ServerLists == SeqsUpTo({Web1, SrvAll, SrvOne, SrvMeta, SrvPlan}, MaxServers)

\* what all_images(), plans() and all_ssh_keys() return when the provider's
\* catalogue is at revision rev
Catalogue(kind, rev) == <<[kind |-> kind, rev |-> rev]>>

\* group_variables of anet_inventory.ini: absent ({}) or a dictionary
IniGroupVariables == [k \in {"ansible_user"} |-> "root"]

GroupVariableChoices == {EmptyDict, IniGroupVariables}

HostArgs == { <<"4","2">>, <<"w","e","b">> }

ShownCloudserver ==
    [k \in { <<"i","d">>, <<"v","m","_","s","t","a","t","u","s">> } |->
        IF k = <<"i","d">> THEN <<"4","2">> ELSE <<"a","c","t","i","v","e">>]

\* the API client during one run: the provider holds fleet and catalogue
\* revision rev, and the request named failing (if any) raises
ApiClient(fleet, rev, failing) ==
    [ cloudservers |-> [raised |-> failing = "cloudservers", value |-> fleet],
      images |-> [raised |-> failing = "images", value |-> Catalogue("images", rev)],
      plans |-> [raised |-> failing = "plans", value |-> Catalogue("plans", rev)],
      ssh_keys |-> [raised |-> failing = "ssh_keys",
                    value |-> Catalogue("ssh_keys", rev)],
      show |-> [raised |-> failing = "show", value |-> ShownCloudserver] ]

DiskOutcomes == {"ok", "open_fails"}

Arguments(view, host, force_cache, refresh_cache) ==
    [view |-> view, host |-> host,
     force_cache |-> force_cache, refresh_cache |-> refresh_cache]

\* ----------------------------------------------------------------------
\* The state machine: runs of the script, the clock, and other programs
\* touching the cache file between runs.  Runs do not overlap: proc describes
\* a run in the state right after it, and Exit forgets it before anything
\* else happens.

NoProcess ==
    [ args |-> Arguments("none", <<>>, FALSE, FALSE), file0 |-> NoFile,
      time0 |-> 0, wrote |-> FALSE,
      self |-> [NewProcess EXCEPT !.outcome = "none"] ]

Init ==
    /\ cache_file = NoFile
    /\ clock = 0
    /\ cache_max_age \in 0..MaxAge
    /\ group_variables = IniGroupVariables
    /\ proc = NoProcess

\* The responses a run can tell apart.  A run consumes only the answers to
\* the requests it makes, so the requests of the run in which nothing fails
\* (the longest run) say which answers need to be drawn.
LongestRun(args) ==
    Main(args, cache_file, clock, clock, cache_max_age, group_variables,
         ApiClient(<<>>, 1, "nothing"), "ok")

Requested(calls, op) == \E i \in 1..Len(calls) : calls[i].op = op

FleetsFor(calls) ==
    IF Requested(calls, "all_active_cloudservers") THEN Fleets ELSE {<<>>}

RevisionsFor(calls) ==
    IF \E k \in CatalogueKinds : Requested(calls, FetchOp(k))
    THEN 1..MaxRevision ELSE {1}

FailingsFor(calls) ==
    {"nothing"} \cup {k \in KindSet : Requested(calls, FetchOp(k))}
                \cup {k \in {"show"} : Requested(calls, "show_cloudserver")}

DiskOutcomesFor(longest) ==
    IF longest.opened THEN DiskOutcomes ELSE {"ok"}

\* the runs of the script with arguments args from the current state, short
\* against the clock's seconds: each is the process as it ended (with its
\* arguments, the file and the time it started with) and the file it left
RunsWith(args) ==
    UNION { { [ proc |-> [args |-> args, file0 |-> cache_file, time0 |-> clock,
                          wrote |-> end.opened, self |-> end.self],
                file |-> end.file ] :
              end \in { Main(args, cache_file, clock, clock, cache_max_age,
                             group_variables, ApiClient(fleet, rev, failing), disk) :
                        fleet \in FleetsFor(longest.self.calls),
                        rev \in RevisionsFor(longest.self.calls),
                        failing \in FailingsFor(longest.self.calls),
                        disk \in DiskOutcomesFor(longest) } } :
            longest \in {LongestRun(args)} }

Runs(view, host) ==
    UNION { RunsWith(Arguments(view, host, force_cache, refresh_cache)) :
            force_cache \in BOOLEAN, refresh_cache \in BOOLEAN }

\* anet_inventory.py --cloudservers
RunCloudservers ==
    /\ proc = NoProcess
    /\ \E run \in Runs("cloudservers", <<>>) :
          /\ proc' = run.proc
          /\ cache_file' = run.file
    /\ UNCHANGED <<clock, cache_max_age, group_variables>>

\* anet_inventory.py --images
RunImages ==
    /\ proc = NoProcess
    /\ \E run \in Runs("images", <<>>) :
          /\ proc' = run.proc
          /\ cache_file' = run.file
    /\ UNCHANGED <<clock, cache_max_age, group_variables>>

\* anet_inventory.py --plans
RunPlans ==
    /\ proc = NoProcess
    /\ \E run \in Runs("plans", <<>>) :
          /\ proc' = run.proc
          /\ cache_file' = run.file
    /\ UNCHANGED <<clock, cache_max_age, group_variables>>

\* anet_inventory.py --ssh-keys
RunSshKeys ==
    /\ proc = NoProcess
    /\ \E run \in Runs("ssh_keys", <<>>) :
          /\ proc' = run.proc
          /\ cache_file' = run.file
    /\ UNCHANGED <<clock, cache_max_age, group_variables>>

\* anet_inventory.py --all
RunAll ==
    /\ proc = NoProcess
    /\ \E run \in Runs("all", <<>>) :
          /\ proc' = run.proc
          /\ cache_file' = run.file
    /\ UNCHANGED <<clock, cache_max_age, group_variables>>

\* anet_inventory.py --host <host>
RunHost ==
    /\ proc = NoProcess
    /\ \E host \in HostArgs : \E run \in Runs("host", host) :
          /\ proc' = run.proc
          /\ cache_file' = run.file
    /\ UNCHANGED <<clock, cache_max_age, group_variables>>

\* anet_inventory.py --list, or no command at all
RunList ==
    /\ proc = NoProcess
    /\ \E run \in Runs("list", <<>>) :
          /\ proc' = run.proc
          /\ cache_file' = run.file
    /\ UNCHANGED <<clock, cache_max_age, group_variables>>

\* the process is gone; the next run starts from the file it left
Exit ==
    /\ proc # NoProcess
    /\ proc' = NoProcess
    /\ UNCHANGED <<cache_file, clock, cache_max_age, group_variables>>

Tick ==
    /\ proc = NoProcess
    /\ clock < MaxClock
    /\ clock' = clock + 1
    /\ UNCHANGED <<cache_file, cache_max_age, group_variables, proc>>

\* the cache file is deleted (it lives in a scratch directory)
RemoveFile ==
    /\ proc = NoProcess
    /\ cache_file.exists
    /\ cache_file' = NoFile
    /\ UNCHANGED <<clock, cache_max_age, group_variables, proc>>

\* something else leaves its own text at the cache path: a JSON document
\* of another program ("foreign"), text that is not JSON ("notjson") or the
\* snapshot without any data, {"data": {}, "inventory": {}} ("snapshot")
ForeignFile ==
    /\ proc = NoProcess
    /\ \E format \in {"foreign", "notjson", "snapshot"} :
          /\ cache_file.content # Document(format, EmptyDict, EmptyDict)
          /\ cache_file' = [exists |-> TRUE, mtime |-> clock,
                            content |-> Document(format, EmptyDict, EmptyDict)]
    /\ UNCHANGED <<clock, cache_max_age, group_variables, proc>>

Next ==
    \/ RunCloudservers
    \/ RunImages
    \/ RunPlans
    \/ RunSshKeys
    \/ RunAll
    \/ RunHost
    \/ RunList
    \/ Exit
    \/ Tick
    \/ RemoveFile
    \/ ForeignFile

Spec == Init /\ [][Next]_vars

\* ----------------------------------------------------------------------
\* build_inventory on its own: the cloudserver list and the group
\* variables are drawn from ServerLists and GroupVariableChoices, and the
\* one step builds the inventory

InitBuild ==
    /\ cache_file = NoFile
    /\ clock = 0
    /\ cache_max_age = 0
    /\ group_variables \in GroupVariableChoices
    /\ \E cloudservers \in ServerLists :
          proc = [NoProcess EXCEPT
                     !.args.view = "build",
                     !.self = [NewProcess EXCEPT
                                  !.data = [k \in {"cloudservers"} |-> cloudservers]]]

BuildInventory ==
    /\ proc.args.view = "build"
    /\ Running(proc.self)
    /\ \E built \in {build_inventory(proc.self, group_variables)} :
          proc' = [proc EXCEPT !.self =
                      IF Running(built) THEN [built EXCEPT !.outcome = "done"]
                      ELSE built]
    /\ UNCHANGED <<cache_file, clock, cache_max_age, group_variables>>

NextBuild == BuildInventory

SpecBuild == InitBuild /\ [][NextBuild]_vars

\* ----------------------------------------------------------------------
\* is_cache_valid on its own: the file, its modification time, the clock
\* and the maximum age are drawn from bounded sets (the modification time
\* may lie in the future), and the one step calls the function

ProbeTimes == 0..(2 * MaxClock)

InitValid ==
    /\ cache_file \in {NoFile} \cup
          {[exists |-> TRUE, mtime |-> t,
            content |-> Document("snapshot", EmptyDict, EmptyDict)] : t \in ProbeTimes}
    /\ clock \in ProbeTimes
    /\ cache_max_age \in 0..MaxAge
    /\ group_variables = EmptyDict
    /\ proc = [NoProcess EXCEPT !.args.view = "probe"]

ProbeValidity ==
    /\ proc.args.view = "probe"
    /\ proc.self.validity = "uncalled"
    /\ proc' = [proc EXCEPT !.self.validity =
                   IF is_cache_valid(cache_file, clock, cache_max_age)
                   THEN "valid" ELSE "stale"]
    /\ UNCHANGED <<cache_file, clock, cache_max_age, group_variables>>

NextValid == ProbeValidity

SpecValid == InitValid /\ [][NextValid]_vars

\* ----------------------------------------------------------------------
\* Properties of a run, read off proc in the state right after it

Ended == proc.self.outcome \in {"done", "exit", "raised"}

\* the requests of the run for resource kind
FetchesOf(kind) ==
    {i \in 1..Len(proc.self.calls) : proc.self.calls[i].op = FetchOp(kind)}

\* the run got an answer to a request for kind
Fetched(kind) == \E i \in FetchesOf(kind) : ~proc.self.calls[i].raised

NoFetchCall == \A kind \in KindSet : FetchesOf(kind) = {}

\* the cache the run started with passes the age test
ValidAtStart ==
    proc.file0.exists /\ proc.file0.mtime + cache_max_age > proc.time0

\* the data the snapshot the run started with holds
StoredData ==
    IF proc.file0.exists /\ proc.file0.content.format = "snapshot"
    THEN proc.file0.content.data ELSE EmptyDict

FileUntouched == ~proc.wrote /\ cache_file = proc.file0

C2_CloudserversAlwaysFetched ==
    (Ended /\ ~proc.args.force_cache
           /\ proc.args.view \in {"cloudservers", "all", "list"}) =>
        /\ FetchesOf("cloudservers") = {1}
        /\ proc.self.outcome = "done" =>
              LET fresh == proc.self.calls[1].value
              IN  CASE proc.args.view = "cloudservers" ->
                         proc.self.json_data = [k \in {"cloudservers"} |-> fresh]
                    [] proc.args.view = "all" ->
                         proc.self.json_data["cloudservers"] = fresh
                    [] proc.args.view = "list" ->
                         proc.self.json_data =
                             build_inventory(
                                 [NewProcess EXCEPT !.data =
                                     [k \in {"cloudservers"} |-> fresh]],
                                 group_variables).inventory

\* C3: a run with --force-cache makes no request for any resource kind,
\* whatever it was asked for and also with --refresh-cache, and its data is
\* what it loaded from the snapshot
C3_ForceCacheNeverFetches ==
    (Ended /\ proc.args.force_cache) =>
        /\ NoFetchCall
        /\ proc.self.data = StoredData
        /\ ~proc.self.cache_refreshed

C3_Witness ==
    /\ Ended /\ proc.args.force_cache /\ proc.args.refresh_cache
    /\ proc.args.view = "all"
    /\ ~ValidAtStart
    /\ proc.self.outcome = "done"
    /\ proc.self.json_data = StoredData

\* C4: every run with --refresh-cache and without --force-cache fetches each
\* of the four kinds exactly once, whatever was requested and whether or not
\* the cache is valid.  Stated for the runs of a resource view (a kind, --all
\* or --list) that print their output, in which no request failed
C4_RefreshFetchesAllKinds ==
    (Ended /\ proc.args.refresh_cache /\ ~proc.args.force_cache
           /\ proc.args.view # "host" /\ proc.self.outcome = "done") =>
        \A kind \in KindSet : Cardinality(FetchesOf(kind)) = 1

\* C5: is_cache_valid answers true exactly when the file exists and
\* mtime + max_age > now; at mtime + max_age = now it answers false, so with
\* max_age 0 a file that is not from the future is never valid
C5_ValidIffYoungerThanMaxAge ==
    proc.self.validity # "uncalled" =>
        /\ (proc.self.validity = "valid") <=>
               (cache_file.exists /\ cache_file.mtime + cache_max_age > clock)
        /\ (cache_file.mtime + cache_max_age = clock) =>
               proc.self.validity = "stale"
        /\ (cache_max_age = 0 /\ cache_file.mtime <= clock) =>
               proc.self.validity = "stale"

C5_Witness ==
    /\ proc.self.validity = "stale"
    /\ cache_file.exists
    /\ cache_max_age > 0
    /\ cache_file.mtime + cache_max_age = clock

\* C6: a run writes the cache file only if it fetched a resource kind; a run
\* without a fetch call leaves the file as it was; a run that fetched a kind
\* and printed its output has written {data, inventory} to the file
C6_WrittenIffFetched ==
    Ended =>
        /\ (proc.wrote \/ cache_file # proc.file0) =>
               \E kind \in KindSet : Fetched(kind)
        /\ NoFetchCall => FileUntouched
        /\ (proc.self.outcome = "done" /\ \E kind \in KindSet : Fetched(kind)) =>
               /\ proc.wrote
               /\ cache_file =
                      [exists |-> TRUE, mtime |-> proc.time0,
                       content |-> Document("snapshot", proc.self.data,
                                            JsonObject(proc.self.inventory))]

C6_Witness ==
    /\ Ended /\ proc.self.outcome = "done"
    /\ proc.args.view = "images"
    /\ proc.file0.exists /\ proc.file0.content.format = "snapshot"
    /\ Fetched("images")
    /\ proc.wrote /\ cache_file # proc.file0

\* C7: load_from_cache never fails the process: a file that is missing or
\* does not parse as a snapshot is taken as the empty snapshot and the run
\* goes on; a run without --force-cache that needs the cloudservers then
\* requests them
C7_CacheReadNeverFails ==
    (Ended /\ (~proc.file0.exists \/ proc.file0.content.format # "snapshot")
           /\ ~proc.args.force_cache
           /\ proc.args.view \in {"cloudservers", "all", "list"}) =>
        /\ proc.self.error \notin {"ValueError", "KeyError"}
        /\ FetchesOf("cloudservers") # {}

\* C8: a cache miss triggers a fetch: a run without --force-cache that asks
\* for kind k (images, plans or ssh_keys) when the snapshot it loaded has no
\* entry for k fetches k (and does not fail for want of it), also when the
\* cache is valid.  Stated for the runs in which no request fails, on a
\* missing file or a snapshot that holds other kinds
C8_CacheMissFetches ==
    (Ended /\ ~proc.args.force_cache /\ proc.args.view \in CatalogueKinds
           /\ (~proc.file0.exists \/ DOMAIN StoredData # {})
           /\ proc.args.view \notin DOMAIN StoredData
           /\ \A i \in 1..Len(proc.self.calls) : ~proc.self.calls[i].raised) =>
        /\ FetchesOf(proc.args.view) # {}
        /\ proc.self.error # "KeyError"

\* C9: with --force-cache and an empty cache (no file, or a snapshot without
\* any resource kind) the run exits with the cache-empty error before any
\* request, prints nothing and does not write the file
C9_ForceCacheOnEmptyCacheExits ==
    (Ended /\ proc.args.force_cache
           /\ (\/ ~proc.file0.exists
               \/ /\ proc.file0.content.format = "snapshot"
                  /\ DOMAIN proc.file0.content.data = {})) =>
        /\ proc.self.outcome = "exit"
        /\ proc.self.error = "cache_empty"
        /\ proc.self.calls = <<>>
        /\ proc.self.json_data = EmptyDict
        /\ FileUntouched

C9_Witness ==
    /\ Ended /\ proc.args.force_cache
    /\ proc.args.view = "host"
    /\ proc.file0.exists /\ proc.file0.content.format = "snapshot"
    /\ DOMAIN proc.file0.content.data = {}
    /\ proc.self.outcome = "exit"

\* the addresses of the cloudservers, in the order of the list
RECURSIVE Addresses(_)
Addresses(cloudservers) ==
    IF Len(cloudservers) = 0 THEN <<>>
    ELSE <<Head(cloudservers).vm_ip_address>> \o Addresses(Tail(cloudservers))

\* C10: for every cloudserver list, whatever the ids and names, after
\* build_inventory the entry all is a group with the addresses of all the
\* cloudservers in input order and the configured group variables, and the
\* entry _meta is {hostvars: {}}
C10_ReservedEntries ==
    (proc.args.view = "build" /\ ~Running(proc.self)) =>
        /\ proc.self.outcome = "done"
        /\ AllKey \in DOMAIN proc.self.inventory
        /\ proc.self.inventory[AllKey] =
               GroupEntry(Addresses(proc.self.data["cloudservers"]), group_variables)
        /\ MetaKey \in DOMAIN proc.self.inventory
        /\ proc.self.inventory[MetaKey] = MetaEntry

\* ----------------------------------------------------------------------
\* Properties of build_inventory on a list of one cloudserver

\* dest repeated n times
Copies(dest, n) == [i \in 1..n |-> dest]

\* build_inventory has been applied to a list of exactly one cloudserver
\* whose image id and image display name are not empty, with group_variables {}
BuiltOne ==
    /\ proc.args.view = "build" /\ ~Running(proc.self)
    /\ group_variables = EmptyDict
    /\ Len(proc.self.data["cloudservers"]) = 1
    /\ Len(proc.self.data["cloudservers"][1].vm_image) > 0
    /\ Len(proc.self.data["cloudservers"][1].vm_image_display_name) > 0

WithPlan(cloudservers, p) ==
    LET HasPlan(cloudserver) == cloudserver.vm_plan_name = p
    IN  SelectSeq(cloudservers, HasPlan)

\* the cloudservers of the list whose status is s, in the order of the list
WithStatus(cloudservers, s) ==
    LET HasStatus(cloudserver) == cloudserver.vm_status = s
    IN  SelectSeq(cloudservers, HasStatus)

\* C12: for every cloudserver list, build_inventory produces for every plan
\* name p of the list one group plan_<p> whose hosts are the addresses of the
\* cloudservers with that plan, once each and in input order, and likewise
\* one group status_<s> for every status s
C12_PlanAndStatusGroups ==
    (proc.args.view = "build" /\ ~Running(proc.self)) =>
        LET cloudservers == proc.self.data["cloudservers"]
            inventory == proc.self.inventory
        IN  /\ proc.self.outcome = "done"
            /\ \A i \in 1..Len(cloudservers) :
                  LET p == cloudservers[i].vm_plan_name
                      s == cloudservers[i].vm_status
                  IN  /\ StrKey(Concat(W_plan_, p)) \in DOMAIN inventory
                      /\ inventory[StrKey(Concat(W_plan_, p))] =
                             GroupEntry(Addresses(WithPlan(cloudservers, p)),
                                        EmptyDict)
                      /\ StrKey(Concat(W_status_, s)) \in DOMAIN inventory
                      /\ inventory[StrKey(Concat(W_status_, s))] =
                             GroupEntry(Addresses(WithStatus(cloudservers, s)),
                                        EmptyDict)

\* ----------------------------------------------------------------------
\* Properties of the snapshot file across runs

\* what load_from_cache of a new process reads from the file as it is now
Reloaded == load_from_cache(NewProcess, cache_file)

\* C13: round trip: after a run has written the snapshot, load_from_cache
\* yields data and inventory equal to the data and the inventory the run
\* held when it wrote them, numeric id keys of the inventory included
C13_RoundTrip ==
    (Ended /\ proc.wrote /\ proc.self.outcome = "done") =>
        /\ Reloaded.outcome = "running"
        /\ Reloaded.data = proc.self.data
        /\ Reloaded.inventory = proc.self.inventory

\* ----------------------------------------------------------------------
\* Script configuration: the start of __init__, from the defaults to the
\* "Manage cache" section.  The attributes of the object that the code tests
\* with hasattr are a dictionary attrs; a source that does not give a
\* setting gives Absent (has_option false, getenv None, argparse None)

Absent == "None"

Setting(has, value) == [has |-> has, value |-> value]

NewObject ==
    [attrs |-> EmptyDict, outcome |-> "running", error |-> "none", printed |-> <<>>]

\* ini is the [atlantic_net] section of anet_inventory.ini
read_settings(self, ini, max_age, gvars) ==
    Bind(IF ini.public_key # Absent
         THEN [self EXCEPT !.attrs = Put(@, "public_key", ini.public_key)]
         ELSE self, LAMBDA s1 :
    Bind(IF ini.private_key # Absent
         THEN [s1 EXCEPT !.attrs = Put(@, "private_key", ini.private_key)]
         ELSE s1, LAMBDA s2 :
    [self |-> s2,
     cache_max_age |-> IF ini.cache_max_age.has
                       THEN ini.cache_max_age.value ELSE max_age,
     group_variables |-> IF ini.group_variables.has
                         THEN ini.group_variables.value ELSE gvars]))

\* both variables are stored in the attribute api_token
read_environment(self, environ) ==
    Bind(IF environ.ANET_PUBLIC_KEY # Absent
         THEN [self EXCEPT !.attrs = Put(@, "api_token", environ.ANET_PUBLIC_KEY)]
         ELSE self, LAMBDA s1 :
    IF environ.ANET_PRIVATE_KEY # Absent
    THEN [s1 EXCEPT !.attrs = Put(@, "api_token", environ.ANET_PRIVATE_KEY)]
    ELSE s1)

\* the credentials part of read_cli_args
read_cli_args(self, args) ==
    Bind(IF args.public_key # Absent
         THEN [self EXCEPT !.attrs = Put(@, "public_key", args.public_key)]
         ELSE self, LAMBDA s1 :
    IF args.private_key # Absent
    THEN [s1 EXCEPT !.attrs = Put(@, "private_key", args.private_key)]
    ELSE s1)

\* "Verify credentials were set"
VerifyCredentialsWereSet(self) ==
    IF "public_key" \notin DOMAIN self.attrs \/ "private_key" \notin DOMAIN self.attrs
    THEN [self EXCEPT !.outcome = "exit", !.error = "missing_credentials"]
    ELSE self

\* "env command, show Atlantic.Net credentials": prints the two keys and
\* exits with status 0; otherwise the run goes on to manage the cache
EnvCommand(self, args) ==
    IF args.env
    THEN [self EXCEPT !.outcome = "exit",
                      !.printed = <<self.attrs["public_key"],
                                    self.attrs["private_key"]>>]
    ELSE [self EXCEPT !.outcome = "manage_cache"]

IniSections ==
    [ public_key : {Absent, "ini_public"},
      private_key : {Absent, "ini_private"},
      cache_max_age : {Setting(FALSE, 0)} \cup {Setting(TRUE, n) : n \in 0..MaxAge},
      group_variables : {Setting(FALSE, EmptyDict), Setting(TRUE, IniGroupVariables)} ]

Environments ==
    [ ANET_PUBLIC_KEY : {Absent, "env_public"},
      ANET_PRIVATE_KEY : {Absent, "env_private"} ]

CredentialArguments ==
    [ view : {"configure"}, env : BOOLEAN,
      public_key : {Absent, "cli_public"},
      private_key : {Absent, "cli_private"} ]

InitConfigure ==
    /\ cache_file = NoFile
    /\ clock = 0
    /\ cache_max_age = 0
    /\ group_variables = EmptyDict
    /\ \E ini \in IniSections, environ \in Environments,
          args \in CredentialArguments :
          proc = [args |-> args, ini |-> ini, environ |-> environ,
                  pc |-> "read_settings", self |-> NewObject]

ReadSettings ==
    /\ proc.pc = "read_settings"
    /\ \E read \in {read_settings(proc.self, proc.ini, cache_max_age,
                                  group_variables)} :
          /\ proc' = [proc EXCEPT !.self = read.self, !.pc = "read_environment"]
          /\ cache_max_age' = read.cache_max_age
          /\ group_variables' = read.group_variables
    /\ UNCHANGED <<cache_file, clock>>

ReadEnvironment ==
    /\ proc.pc = "read_environment"
    /\ proc' = [proc EXCEPT !.self = read_environment(proc.self, proc.environ),
                            !.pc = "read_cli_args"]
    /\ UNCHANGED <<cache_file, clock, cache_max_age, group_variables>>

ReadCliArgs ==
    /\ proc.pc = "read_cli_args"
    /\ proc' = [proc EXCEPT !.self = read_cli_args(proc.self, proc.args),
                            !.pc = "verify_credentials"]
    /\ UNCHANGED <<cache_file, clock, cache_max_age, group_variables>>

VerifyCredentials ==
    /\ proc.pc = "verify_credentials"
    /\ \E verified \in {VerifyCredentialsWereSet(proc.self)} :
          proc' = [proc EXCEPT !.self = verified,
                               !.pc = IF verified.outcome = "running"
                                      THEN "env_command" ELSE "ended"]
    /\ UNCHANGED <<cache_file, clock, cache_max_age, group_variables>>

ShowOrGoOn ==
    /\ proc.pc = "env_command"
    /\ proc' = [proc EXCEPT !.self = EnvCommand(proc.self, proc.args),
                            !.pc = "ended"]
    /\ UNCHANGED <<cache_file, clock, cache_max_age, group_variables>>

NextConfigure ==
    \/ ReadSettings
    \/ ReadEnvironment
    \/ ReadCliArgs
    \/ VerifyCredentials
    \/ ShowOrGoOn

SpecConfigure == InitConfigure /\ [][NextConfigure]_vars

\* the value of a credential by the precedence ini < environment < CLI
Resolved(from_ini, from_environ, from_cli) ==
    IF from_cli # Absent THEN from_cli
    ELSE IF from_environ # Absent THEN from_environ
    ELSE from_ini

\* C14: each credential is resolved with precedence INI file < environment
\* variable < CLI argument; the run exits with the missing-credentials error
\* exactly when one of the two keys has no value after the three sources,
\* and otherwise goes on with the resolved values; a run whose only source
\* is the two environment variables goes on with those values
C14_CredentialPrecedence ==
    (proc.args.view = "configure" /\ proc.pc = "ended") =>
        LET public == Resolved(proc.ini.public_key,
                               proc.environ.ANET_PUBLIC_KEY, proc.args.public_key)
            private == Resolved(proc.ini.private_key,
                                proc.environ.ANET_PRIVATE_KEY, proc.args.private_key)
        IN  /\ (proc.self.error = "missing_credentials") <=>
                   (public = Absent \/ private = Absent)
            /\ (public # Absent /\ private # Absent) =>
                   /\ "public_key" \in DOMAIN proc.self.attrs
                   /\ "private_key" \in DOMAIN proc.self.attrs
                   /\ proc.self.attrs["public_key"] = public
                   /\ proc.self.attrs["private_key"] = private

\* C15: a --host <integer id> run bypasses the cache: whatever the snapshot
\* file holds (missing, unparsable, empty, stale, valid) and whatever
\* --force-cache and --refresh-cache say, it makes exactly one request,
\* show_cloudserver(id), and no request for a resource kind, leaves the file
\* as it was, and when the request is answered prints {cloudserver: m},
\* where m has exactly the returned fields, each under its anet_ name
C15_HostBypassesCache ==
    (Ended /\ proc.args.view = "host" /\ IntParses(proc.args.host)) =>
        /\ Len(proc.self.calls) = 1
        /\ proc.self.calls[1].op = "show_cloudserver"
        /\ proc.self.calls[1].arguments = <<IntOf(proc.args.host)>>
        /\ NoFetchCall
        /\ FileUntouched
        /\ ~proc.self.calls[1].raised =>
              LET shown == proc.self.calls[1].value
              IN  /\ proc.self.outcome = "done"
                  /\ DOMAIN proc.self.json_data = {"cloudserver"}
                  /\ DOMAIN proc.self.json_data["cloudserver"] =
                        {Concat(W_anet_, k) : k \in DOMAIN shown}
                  /\ \A k \in DOMAIN shown :
                        proc.self.json_data["cloudserver"][Concat(W_anet_, k)]
                            = shown[k]

\* the requests of the run that raised
RaisedCalls == {i \in 1..Len(proc.self.calls) : proc.self.calls[i].raised}

\* C16: if a request for a resource kind raises during a run (also a later
\* kind of an all-kinds refresh, after earlier kinds were fetched), the run
\* ends in failure there: the failed request is its last request and no kind
\* is requested twice (no retry), nothing is printed, and the snapshot file
\* is as it was before the run
C16_FetchErrorIsFatal ==
    (Ended /\ \E kind \in KindSet : \E i \in FetchesOf(kind) : i \in RaisedCalls) =>
        /\ proc.self.outcome = "raised"
        /\ proc.self.error = "APIError"
        /\ RaisedCalls = {Len(proc.self.calls)}
        /\ \A kind \in KindSet : Cardinality(FetchesOf(kind)) <= 1
        /\ proc.self.json_data = EmptyDict
        /\ FileUntouched

C16_Witness ==
    /\ Ended /\ proc.args.view = "all"
    /\ proc.file0.exists /\ proc.file0.content.format = "snapshot"
    /\ "cloudservers" \in DOMAIN StoredData
    /\ Fetched("cloudservers") /\ Fetched("images")
    /\ FetchesOf("plans") = {3} /\ RaisedCalls = {3}
    /\ proc.self.cache_refreshed
    /\ proc.self.outcome = "raised"
    /\ cache_file = proc.file0

\* the kinds the run fetched
FetchedKinds == {kind \in KindSet : Fetched(kind)}

\* what the run's request for kind returned
Returned(kind) ==
    proc.self.calls[CHOOSE i \in FetchesOf(kind) : ~proc.self.calls[i].raised].value

\* C17: after a run that fetched the kinds F and wrote the snapshot, the
\* snapshot's data holds for every kind of F exactly the sequence that
\* kind's fetch returned, and for every other kind exactly what the previous
\* snapshot held (nothing when it held nothing or there was no snapshot),
\* whether the previous snapshot was valid or stale
C17_RefreshReplacesPerKind ==
    (Ended /\ proc.wrote /\ proc.self.outcome = "done") =>
        LET data == cache_file.content.data
        IN  /\ cache_file.content.format = "snapshot"
            /\ DOMAIN data = FetchedKinds \cup DOMAIN StoredData
            /\ \A kind \in FetchedKinds : data[kind] = Returned(kind)
            /\ \A kind \in (DOMAIN StoredData) \ FetchedKinds :
                  data[kind] = StoredData[kind]

C17_Witness ==
    /\ Ended /\ proc.wrote /\ proc.self.outcome = "done"
    /\ proc.args.view = "cloudservers"
    /\ ~ValidAtStart
    /\ DOMAIN StoredData = KindSet
    /\ StoredData["cloudservers"] = <<Web1>>
    /\ FetchedKinds = {"cloudservers"}
    /\ cache_file.content.data["cloudservers"] = <<SrvAll>>
    /\ cache_file.content.data["images"] = StoredData["images"]

\* how many times dest occurs in hosts
Occurrences(hosts, dest) == Cardinality({i \in 1..Len(hosts) : hosts[i] = dest})

\* how many times the cloudservers at address dest put dest in the image
\* group: twice by a non-empty image id that names the group (the
\* always-present pass and the second pass), once by a non-empty image
\* display name that names it
ImageAppends(cloudservers, group, dest) ==
    LET at == {i \in 1..Len(cloudservers) : cloudservers[i].vm_ip_address = dest}
        by_id == {i \in at : /\ Len(cloudservers[i].vm_image) > 0
                             /\ Concat(W_image_, to_safe(cloudservers[i].vm_image))
                                    = group}
        by_name == {i \in at :
                       /\ Len(cloudservers[i].vm_image_display_name) > 0
                       /\ Concat(W_image_,
                                 to_safe(cloudservers[i].vm_image_display_name))
                              = group}
    IN  2 * Cardinality(by_id) + Cardinality(by_name)

\* C18: for every cloudserver with a non-empty image id, build_inventory
\* appends its address to image_<safe(image id)> twice (as an always-present
\* group and again in the second pass), and for every cloudserver with a
\* non-empty image display name once more to image_<safe(display name)>;
\* the duplicates stay: after build_inventory each image group of such a
\* cloudserver holds every address exactly as many times as these appends
\* put it there
C18_ImageGroupDuplicates ==
    (proc.args.view = "build" /\ ~Running(proc.self)) =>
        LET cloudservers == proc.self.data["cloudservers"]
            inventory == proc.self.inventory
            image_groups ==
                {Concat(W_image_, to_safe(cloudservers[i].vm_image)) :
                    i \in {j \in 1..Len(cloudservers) :
                              Len(cloudservers[j].vm_image) > 0}}
                \cup
                {Concat(W_image_, to_safe(cloudservers[i].vm_image_display_name)) :
                    i \in {j \in 1..Len(cloudservers) :
                              Len(cloudservers[j].vm_image_display_name) > 0}}
        IN  \A group \in image_groups :
                /\ StrKey(group) \in DOMAIN inventory
                /\ inventory[StrKey(group)].shape = "group"
                /\ \A i \in 1..Len(cloudservers) :
                      Occurrences(inventory[StrKey(group)].hosts,
                                  cloudservers[i].vm_ip_address)
                          = ImageAppends(cloudservers, group,
                                         cloudservers[i].vm_ip_address)

\* ----------------------------------------------------------------------
\* Runs against a provider whose catalogues change every second: what
\* all_images(), plans() and all_ssh_keys() return at time t is revision t,
\* so a record of the snapshot tells when it was fetched

DatedRunsWith(args) ==
    UNION { { [ proc |-> [args |-> args, file0 |-> cache_file, time0 |-> clock,
                          wrote |-> end.opened, self |-> end.self],
                file |-> end.file ] :
              end \in { Main(args, cache_file, clock, clock, cache_max_age,
                             group_variables, ApiClient(fleet, clock, failing),
                             disk) :
                        fleet \in FleetsFor(longest.self.calls),
                        failing \in FailingsFor(longest.self.calls),
                        disk \in DiskOutcomesFor(longest) } } :
            longest \in {LongestRun(args)} }

\* anet_inventory.py with one of its commands
DatedRun ==
    /\ proc = NoProcess
    /\ \E view \in KindSet \cup {"all", "list"} :
       \E force_cache \in BOOLEAN, refresh_cache \in BOOLEAN :
       \E run \in DatedRunsWith(Arguments(view, <<>>, force_cache, refresh_cache)) :
          /\ proc' = run.proc
          /\ cache_file' = run.file
    /\ UNCHANGED <<clock, cache_max_age, group_variables>>

NextDated ==
    \/ DatedRun
    \/ Exit
    \/ Tick

SpecDated == Init /\ [][NextDated]_vars

\* when the provider handed out the record
FetchedAt(record) == record.rev

\* C19: the cache is time-boxed per served record: whenever a run without
\* --force-cache serves images, plans or ssh_keys from the snapshot without
\* fetching them, the records it prints were fetched from the provider less
\* than cache_max_age seconds before the run, also when runs in between
\* rewrote the snapshot after fetching other kinds only
C19_ServedRecordsAreYoung ==
    (Ended /\ ~proc.args.force_cache /\ proc.args.view \in CatalogueKinds
           /\ proc.self.outcome = "done" /\ FetchesOf(proc.args.view) = {}) =>
        \A i \in 1..Len(proc.self.json_data[proc.args.view]) :
            proc.time0 - FetchedAt(proc.self.json_data[proc.args.view][i])
                < cache_max_age

\* the inventory the snapshot the run started with holds
StoredInventory ==
    IF proc.file0.exists /\ proc.file0.content.format = "snapshot"
    THEN proc.file0.content.inventory ELSE EmptyDict

\* the inventory build_inventory derives from the cloudservers list of the
\* snapshot in the file, as json.dumps writes it
InventoryOfStoredList ==
    JsonObject(build_inventory(
                   [NewProcess EXCEPT !.data =
                       [k \in {"cloudservers"} |->
                           cache_file.content.data["cloudservers"]]],
                   group_variables).inventory)

\* C20 as stated: every snapshot the program has written that holds a
\* cloudservers list has the inventory build_inventory derives from that
\* list
C20_Original ==
    (Ended /\ proc.wrote /\ "cloudservers" \in DOMAIN cache_file.content.data) =>
        cache_file.content.inventory = InventoryOfStoredList

\* C20 (amended): a snapshot written by a --list run has the inventory
\* build_inventory derives from the snapshot's cloudservers list; a snapshot
\* written by a run of any other command has the inventory of the snapshot
\* the run started with (none when there was no snapshot), whatever
\* cloudservers list it now holds
C20_InventoryIsLastBuilt ==
    (Ended /\ proc.wrote /\ "cloudservers" \in DOMAIN cache_file.content.data) =>
        IF proc.args.view = "list"
        THEN cache_file.content.inventory = InventoryOfStoredList
        ELSE cache_file.content.inventory = StoredInventory

C20_Witness ==
    /\ Ended /\ proc.wrote
    /\ proc.args.view = "cloudservers"
    /\ "cloudservers" \in DOMAIN cache_file.content.data
    /\ cache_file.content.data["cloudservers"] = <<SrvAll>>
    /\ "cloudservers" \in DOMAIN StoredData
    /\ StoredData["cloudservers"] = <<Web1>>
    /\ StrKey(Web1.name) \in DOMAIN StoredInventory
    /\ cache_file.content.inventory = StoredInventory
    /\ cache_file.content.inventory # InventoryOfStoredList

====
